---- MODULE Spec2Model ----
(***************************************************************************)
(* easy_thumbnails/models.py: FileManager.get_file and the cache keys of   *)
(* FileManager and ThumbnailManager, with the record store (the Source,    *)
(* Thumbnail and ThumbnailDimensions tables), the shared cache and the     *)
(* storage backend they use.                                               *)
(*                                                                         *)
(* Every store, cache and storage operation of get_file is one atomic      *)
(* step, so calls made by different processes interleave between them.     *)
(* Strings that are formatted into a cache key are sequences of            *)
(* one-character strings.                                                  *)
(***************************************************************************)
EXTENDS Integers, Sequences, FiniteSets, TLC

\* ---------------------------------------------------------------- bounds
MaxCalls == 2
MaxTime == 2
MaxRelease == 2
MaxNameLen == 2
NumProcs == 2
MaxExternal == 1

Procs == 1..NumProcs
NoProc == 0
Kinds == {"Source", "Thumbnail"}
Storages == {"default"}
Names == {<<"a">>}
Times == 1..MaxTime
NoTime == 0
NoPk == 0
\* django.db errors of a store operation, other than DoesNotExist
StoreErrors == {"DatabaseError", "OperationalError"}
NoError == ""

\* ------------------------------------------------------------ cache keys
DigitChars == <<"0", "1", "2", "3", "4", "5", "6", "7", "8", "9">>

RECURSIVE Str(_)
Str(n) == IF n < 10 THEN <<DigitChars[n + 1]>>
          ELSE Str(n \div 10) \o <<DigitChars[(n % 10) + 1]>>

\* get_version() of the installed package: "2.<release>"
VersionTag(rel) == <<"2", ".">> \o Str(rel)

\* utils.get_storage_hash(storage): a hexadecimal digest
get_storage_hash(storage) == <<"d", "0">>

FileManager_get_cache_key_no_version(ver, kwargs) ==
    <<"easy_thumbnails", ":", "FileManager", ":">>
        \o kwargs.storage_hash \o <<":">> \o kwargs.name

FileManager_get_cache_key(ver, kwargs) ==
    <<"easy_thumbnails", ":">> \o ver \o <<":", "FileManager", ":">>
        \o kwargs.storage_hash \o <<":">> \o kwargs.name

ThumbnailManager_get_cache_key_inherited(ver, kwargs) ==
    <<"easy_thumbnails", ":">> \o ver \o <<":", "FileManager", ":">>
        \o kwargs.storage_hash \o <<":">> \o kwargs.name

ThumbnailManager_get_cache_key(ver, kwargs) ==
    <<"easy_thumbnails", ":">> \o ver \o <<":", "ThumbnailManager", ":">>
        \o kwargs.storage_hash \o <<":">> \o kwargs.name
        \o <<":">> \o Str(kwargs.source)

\* self._get_cache_key(kwargs), dispatched on the manager's class
get_cache_key(kind, ver, kwargs) ==
    IF kind = "Thumbnail" THEN ThumbnailManager_get_cache_key(ver, kwargs)
    ELSE FileManager_get_cache_key(ver, kwargs)

\* ---------------------------------------------------------------- store
NoObj == [kind |-> "None", pk |-> NoPk, storage_hash |-> <<>>, name |-> <<>>,
          source |-> NoPk, modified |-> NoTime]

Row(kind, pk, kwargs, modified) ==
    [kind |-> kind, pk |-> pk, storage_hash |-> kwargs.storage_hash,
     name |-> kwargs.name, source |-> kwargs.source, modified |-> modified]

\* the rows of the manager's table that the lookup kwargs select
Filter(st, kind, kwargs) ==
    {r \in st : /\ r.kind = kind
                /\ r.storage_hash = kwargs.storage_hash
                /\ r.name = kwargs.name
                /\ r.source = kwargs.source}

\* manager.get(**kwargs): the row, or NoObj for DoesNotExist
Get(st, kind, kwargs) ==
    IF Filter(st, kind, kwargs) = {} THEN NoObj
    ELSE CHOOSE r \in Filter(st, kind, kwargs) : TRUE

\* Thumbnail.source is a foreign key to Source
SourceExists(st, kind, kwargs) ==
    kind = "Thumbnail" => \E s \in st : s.kind = "Source" /\ s.pk = kwargs.source

get_or_create_no_unique(st, kind, kwargs, modified, pk) ==
    IF ~SourceExists(st, kind, kwargs)
    THEN [store |-> st, obj |-> NoObj, created |-> FALSE, error |-> TRUE]
    ELSE [store |-> st \cup {Row(kind, pk, kwargs, modified)},
          obj |-> Row(kind, pk, kwargs, modified), created |-> TRUE,
          error |-> FALSE]

\* self.get_or_create(**kwargs) under the tables' unique_together: the
\* existing row, or a new row with the defaults; IntegrityError when the
\* thumbnail's source row is gone
get_or_create(st, kind, kwargs, modified, pk) ==
    IF Filter(st, kind, kwargs) # {}
    THEN [store |-> st, obj |-> Get(st, kind, kwargs), created |-> FALSE,
          error |-> FALSE]
    ELSE IF ~SourceExists(st, kind, kwargs)
    THEN [store |-> st, obj |-> NoObj, created |-> FALSE, error |-> TRUE]
    ELSE [store |-> st \cup {Row(kind, pk, kwargs, modified)},
          obj |-> Row(kind, pk, kwargs, modified), created |-> TRUE,
          error |-> FALSE]

UpdateModified_replace(st, kind, pk, modified) ==
    {r \in st : ~(r.kind = kind /\ r.pk = pk)}
        \cup {[NoObj EXCEPT !.kind = kind, !.pk = pk, !.modified = modified]}

\* self.filter(pk=obj.pk).update(modified=update_modified)
UpdateModified(st, kind, pk, modified) ==
    {IF r.kind = kind /\ r.pk = pk THEN [r EXCEPT !.modified = modified] ELSE r
        : r \in st}

DeleteCascade_no_cascade(st, row) == st \ {row}

\* on_delete=models.CASCADE of Thumbnail.source
DeleteCascade(st, row) ==
    {r \in st : /\ r # row
                /\ ~(row.kind = "Source" /\ r.kind = "Thumbnail"
                     /\ r.source = row.pk)}

\* a ThumbnailDimensions row: its thumbnail's pk, width and height
Dimensions(thumbnail_pk, width, height) ==
    [thumbnail |-> thumbnail_pk, width |-> width, height |-> height]

\* on_delete=models.CASCADE of ThumbnailDimensions.thumbnail: the rows
\* attached to the thumbnails that deleting row removes from st
DeleteDimensions(dims, st, row) ==
    {d \in dims : ~\E t \in st \ DeleteCascade(st, row) :
                      t.kind = "Thumbnail" /\ t.pk = d.thumbnail}

\* ---------------------------------------------------------------- state
VARIABLES
    release,       \* the installed package's release; get_version() names it
    store,         \* the rows of the Source and Thumbnail tables
    dimensions,    \* the rows of the ThumbnailDimensions table
    nextPk,        \* per table, the next primary key
    cache,         \* the cache backend: key -> cached object
    storageFiles,  \* <<storage, name>> of the files that exist in storage
    settings,      \* THUMBNAIL_CACHE, THUMBNAIL_QUERYSET_CACHING
    call,          \* per process, its get_file call
    last,          \* the process whose call returned last, undisturbed; or NoProc
    ncalls,        \* the calls made so far
    nexternal,     \* the writes made to the store by other code so far
    probe          \* the cache keys of a pair of lookups (key derivation)

vars == <<release, store, dimensions, nextPk, cache, storageFiles, settings,
          call, last, ncalls, nexternal, probe>>
envVars == <<dimensions, storageFiles, settings, nexternal, probe>>

NoPrev == [kind |-> "None"]

IdleCall ==
    [pc |-> "idle", kind |-> "None", storage |-> "default", name |-> <<>>,
     source |-> NoPk, create |-> FALSE, update_modified |-> NoTime,
     check_cache_miss |-> FALSE, ver |-> <<>>, cache_key |-> <<>>,
     obj |-> NoObj, created |-> FALSE, store_error |-> NoError,
     raised |-> NoError,
     absent0 |-> FALSE,
     hit |-> FALSE, hitVer |-> <<>>, stale |-> FALSE, queries |-> 0, creates |-> 0,
     updates |-> 0, cacheSets |-> 0, solo |-> FALSE, found0 |-> NoObj,
     empty0 |-> FALSE, prev |-> NoPrev]

Summary(c) ==
    [kind |-> c.kind, storage |-> c.storage, name |-> c.name,
     source |-> c.source, create |-> c.create,
     update_modified |-> c.update_modified,
     check_cache_miss |-> c.check_cache_miss, ver |-> c.ver, obj |-> c.obj,
     created |-> c.created, hit |-> c.hit]

InFlight(q) == call[q].pc \notin {"idle", "done", "raised"}

\* kwargs.update(dict(storage_hash=..., name=name)), with source for thumbnails
Kwargs(c) == [storage_hash |-> get_storage_hash(c.storage), name |-> c.name,
              source |-> c.source]

Caching_either ==
    settings.THUMBNAIL_CACHE \/ settings.THUMBNAIL_QUERYSET_CACHING

\* settings.THUMBNAIL_CACHE and settings.THUMBNAIL_QUERYSET_CACHING
Caching == settings.THUMBNAIL_CACHE /\ settings.THUMBNAIL_QUERYSET_CACHING

\* if update_modified and not created: if obj.modified != update_modified
NeedsUpdate(c) ==
    /\ c.update_modified # NoTime
    /\ ~c.created
    /\ c.obj.modified # c.update_modified

\* The environment acts between the first call and the last: what it does
\* before amounts to another initial state, what it does after is not observed.
BetweenCalls == 0 < ncalls /\ ncalls < MaxCalls

\* where get_file goes once obj is bound: the update, or return obj
AfterObj(c) == IF NeedsUpdate(c) THEN "update" ELSE "done"

\* a call that something else ran into is no longer one of two calls in a row
Disturbed(c) == [c EXCEPT !.solo = FALSE, !.prev = NoPrev]

DisturbAll == [q \in Procs |-> IF InFlight(q) THEN Disturbed(call[q]) ELSE call[q]]

\* process p's call becomes c2; a call that returns undisturbed is the last one
Step(p, c2) ==
    /\ call' = [call EXCEPT ![p] = c2]
    /\ last' = IF c2.pc = "done" THEN (IF c2.solo THEN p ELSE NoProc)
               ELSE IF c2.pc = "raised" THEN NoProc
               ELSE last

InitStores ==
    LET kw == [storage_hash |-> get_storage_hash("default"), name |-> <<"a">>,
               source |-> NoPk]
        s1 == Row("Source", 1, kw, 1)
        t1 == Row("Thumbnail", 1, [kw EXCEPT !.source = 1], 1)
    IN {{}, {s1}, {s1, t1}}

MaxPk(st, kind) ==
    LET pks == {r.pk : r \in {x \in st : x.kind = kind}}
    IN IF pks = {} THEN 0 ELSE CHOOSE m \in pks : \A n \in pks : n <= m

NoProbe == [fver |-> <<>>, fkwargs |-> <<>>, tver |-> <<>>, tkwargs |-> <<>>,
            file |-> <<>>, thumb |-> <<>>]

Init ==
    /\ release = 1
    /\ store \in InitStores
    /\ dimensions = {Dimensions(t.pk, 1, 1) :
                        t \in {r \in store : r.kind = "Thumbnail"}}
    /\ nextPk = [k \in Kinds |-> MaxPk(store, k) + 1]
    /\ cache = [k \in {} |-> NoObj]
    /\ storageFiles \in SUBSET (Storages \X Names)
    /\ settings \in [THUMBNAIL_CACHE : BOOLEAN,
                     THUMBNAIL_QUERYSET_CACHING : BOOLEAN]
    /\ call = [p \in Procs |-> IdleCall]
    /\ last = NoProc
    /\ ncalls = 0
    /\ nexternal = 0
    /\ probe = NoProbe

\* ------------------------------------------------------------- get_file
\* lines 34-38, 40-43, 45-50: the call is made and takes its path; the caller
\* is the lowest process that is not inside a call
Call(p, kind, storage, name, source, create, update_modified, check_cache_miss) ==
    /\ ~InFlight(p)
    /\ \A q \in Procs : q < p => InFlight(q)
    /\ ncalls < MaxCalls
    /\ IF kind = "Thumbnail"
       THEN \E s \in store : s.kind = "Source" /\ s.pk = source
       ELSE source = NoPk
    /\ create => ~check_cache_miss    \* read on the read path only (line 58)
    /\ LET kw == [storage_hash |-> get_storage_hash(storage), name |-> name,
                  source |-> source]
           alone == \A q \in Procs : ~InFlight(q)
           c2 == [IdleCall EXCEPT
                    !.pc = IF create THEN "get_or_create"
                           ELSE IF Caching THEN "cache_get" ELSE "get",
                    !.kind = kind, !.storage = storage, !.name = name,
                    !.source = source, !.create = create,
                    !.update_modified = update_modified,
                    !.check_cache_miss = check_cache_miss,
                    !.ver = VersionTag(release),
                    !.cache_key = get_cache_key(kind, VersionTag(release), kw),
                    !.solo = alone,
                    !.found0 = Get(store, kind, kw),
                    !.empty0 = (store = {}),
                    !.absent0 = \E q \in Procs :
                                    /\ call[q].pc = "done"
                                    /\ ~call[q].create
                                    /\ call[q].obj = NoObj
                                    /\ call[q].kind = kind
                                    /\ call[q].storage = storage
                                    /\ call[q].name = name
                                    /\ call[q].source = source,
                    !.prev = IF alone /\ last # NoProc
                             THEN Summary(call[last]) ELSE NoPrev]
       IN call' = [q \in Procs |-> IF q = p THEN c2 ELSE DisturbAll[q]]
    /\ ncalls' = ncalls + 1
    /\ UNCHANGED <<release, store, nextPk, cache, last, envVars>>

GetOrCreate_write_through(p) ==
    /\ call[p].pc \in {"get_or_create", "miss_get_or_create"}
    /\ \E now \in Times :
        LET c == call[p]
            modified == IF c.pc = "get_or_create" /\ c.update_modified # NoTime
                        THEN c.update_modified ELSE now
            res == get_or_create(store, c.kind, Kwargs(c), modified,
                                 nextPk[c.kind])
            c1 == [c EXCEPT !.obj = res.obj, !.created = res.created,
                            !.queries = @ + 1,
                            !.creates = @ + (IF res.created THEN 1 ELSE 0)]
            c2 == [c1 EXCEPT !.pc = IF res.error THEN "raised"
                                    ELSE IF Caching THEN "cache_set"
                                    ELSE AfterObj(c1),
                             !.store_error = IF res.error THEN "IntegrityError"
                                             ELSE @,
                             !.raised = IF res.error THEN "IntegrityError"
                                        ELSE @]
        IN /\ store' = res.store
           /\ nextPk' = IF res.created
                        THEN [nextPk EXCEPT ![c.kind] = @ + 1] ELSE nextPk
           /\ Step(p, c2)
    /\ UNCHANGED <<release, cache, ncalls, envVars>>

GetOrCreate_not_cached(p) ==
    /\ call[p].pc \in {"get_or_create", "miss_get_or_create"}
    /\ \E now \in Times :
        LET c == call[p]
            modified == IF c.pc = "get_or_create" /\ c.update_modified # NoTime
                        THEN c.update_modified ELSE now
            res == get_or_create(store, c.kind, Kwargs(c), modified,
                                 nextPk[c.kind])
            c1 == [c EXCEPT !.obj = res.obj, !.created = res.created,
                            !.queries = @ + 1,
                            !.creates = @ + (IF res.created THEN 1 ELSE 0)]
            c2 == [c1 EXCEPT !.pc = IF res.error THEN "raised"
                                    ELSE AfterObj(c1),
                             !.store_error = IF res.error THEN "IntegrityError"
                                             ELSE @,
                             !.raised = IF res.error THEN "IntegrityError"
                                        ELSE @]
        IN /\ store' = res.store
           /\ nextPk' = IF res.created
                        THEN [nextPk EXCEPT ![c.kind] = @ + 1] ELSE nextPk
           /\ Step(p, c2)
    /\ UNCHANGED <<release, cache, ncalls, envVars>>

GetOrCreate_no_defaults(p) ==
    /\ call[p].pc \in {"get_or_create", "miss_get_or_create"}
    /\ \E now \in Times :
        LET c == call[p]
            modified == now
            res == get_or_create(store, c.kind, Kwargs(c), modified,
                                 nextPk[c.kind])
            c1 == [c EXCEPT !.obj = res.obj, !.created = res.created,
                            !.queries = @ + 1,
                            !.creates = @ + (IF res.created THEN 1 ELSE 0)]
            c2 == [c1 EXCEPT !.pc = IF res.error THEN "raised"
                                    ELSE IF c.pc = "miss_get_or_create" /\ Caching
                                    THEN "cache_set"
                                    ELSE AfterObj(c1),
                             !.store_error = IF res.error THEN "IntegrityError"
                                             ELSE @,
                             !.raised = IF res.error THEN "IntegrityError"
                                        ELSE @]
        IN /\ store' = res.store
           /\ nextPk' = IF res.created
                        THEN [nextPk EXCEPT ![c.kind] = @ + 1] ELSE nextPk
           /\ Step(p, c2)
    /\ UNCHANGED <<release, cache, ncalls, envVars>>

\* line 44 and line 62: obj, created = self.get_or_create(**kwargs)
GetOrCreate(p) ==
    /\ call[p].pc \in {"get_or_create", "miss_get_or_create"}
    /\ \E now \in Times :
        LET c == call[p]
            modified == IF c.pc = "get_or_create" /\ c.update_modified # NoTime
                        THEN c.update_modified ELSE now
            res == get_or_create(store, c.kind, Kwargs(c), modified,
                                 nextPk[c.kind])
            c1 == [c EXCEPT !.obj = res.obj, !.created = res.created,
                            !.queries = @ + 1,
                            !.creates = @ + (IF res.created THEN 1 ELSE 0)]
            c2 == [c1 EXCEPT !.pc = IF res.error THEN "raised"
                                    ELSE IF c.pc = "miss_get_or_create" /\ Caching
                                    THEN "cache_set"
                                    ELSE AfterObj(c1),
                             !.store_error = IF res.error THEN "IntegrityError"
                                             ELSE @,
                             !.raised = IF res.error THEN "IntegrityError"
                                        ELSE @]
        IN /\ store' = res.store
           /\ nextPk' = IF res.created
                        THEN [nextPk EXCEPT ![c.kind] = @ + 1] ELSE nextPk
           /\ Step(p, c2)
    /\ UNCHANGED <<release, cache, ncalls, envVars>>

\* line 51: obj = cache.get(cache_key)
CacheGet(p) ==
    /\ call[p].pc = "cache_get"
    /\ LET c == call[p]
           found == c.cache_key \in DOMAIN cache
           c1 == IF found
                 THEN [c EXCEPT !.obj = cache[c.cache_key].obj, !.hit = TRUE,
                                !.hitVer = cache[c.cache_key].ver,
                                !.stale = (cache[c.cache_key].obj
                                           # Get(store, c.kind, Kwargs(c)))]
                 ELSE c
           c2 == [c1 EXCEPT !.pc = IF found THEN AfterObj(c1) ELSE "get"]
       IN Step(p, c2)
    /\ UNCHANGED <<release, store, nextPk, cache, ncalls, envVars>>

StoreGet_caches_miss(p) ==
    /\ call[p].pc = "get"
    /\ LET c == call[p]
           obj == Get(store, c.kind, Kwargs(c))
           exists == <<c.storage, c.name>> \in storageFiles
           c1 == [c EXCEPT !.obj = obj, !.queries = @ + 1]
           c2 == [c1 EXCEPT !.pc = IF obj = NoObj
                                    THEN (IF c.check_cache_miss /\ exists
                                          THEN "miss_get_or_create" ELSE "done")
                                    ELSE IF Caching THEN "cache_set"
                                    ELSE AfterObj(c1)]
       IN /\ cache' = IF obj = NoObj /\ Caching
                      THEN (c.cache_key :> [obj |-> NoObj, ver |-> c.ver]) @@ cache
                      ELSE cache
          /\ Step(p, c2)
    /\ UNCHANGED <<release, store, nextPk, ncalls, envVars>>

\* lines 53-58, 63-64: obj = manager.get(**kwargs); on DoesNotExist,
\* check_cache_miss and storage.exists(name) decide between line 62 and return
StoreGet(p) ==
    /\ call[p].pc = "get"
    /\ LET c == call[p]
           obj == Get(store, c.kind, Kwargs(c))
           exists == <<c.storage, c.name>> \in storageFiles
           c1 == [c EXCEPT !.obj = obj, !.queries = @ + 1]
           c2 == [c1 EXCEPT !.pc = IF obj = NoObj
                                    THEN (IF c.check_cache_miss /\ exists
                                          THEN "miss_get_or_create" ELSE "done")
                                    ELSE IF Caching THEN "cache_set"
                                    ELSE AfterObj(c1)]
       IN Step(p, c2)
    /\ UNCHANGED <<release, store, nextPk, cache, ncalls, envVars>>

CacheSet_unsaved(p) ==
    /\ call[p].pc = "cache_set"
    /\ Step(p, [call[p] EXCEPT !.pc = AfterObj(call[p])])
    /\ UNCHANGED <<release, store, nextPk, cache, ncalls, envVars>>

\* lines 66-67: cache.set(cache_key, obj, None)
CacheSet(p) ==
    /\ call[p].pc = "cache_set"
    /\ LET c == call[p]
           c1 == [c EXCEPT !.cacheSets = @ + 1]
           c2 == [c1 EXCEPT !.pc = AfterObj(c1)]
       IN /\ cache' = (c.cache_key :> [obj |-> c.obj, ver |-> c.ver]) @@ cache
          /\ Step(p, c2)
    /\ UNCHANGED <<release, store, nextPk, ncalls, envVars>>

\* line 71: self.filter(pk=obj.pk).update(modified=update_modified)
Update(p) ==
    /\ call[p].pc = "update"
    /\ LET c == call[p]
           c2 == [c EXCEPT !.updates = @ + 1,
                           !.pc = IF Caching THEN "cache_refresh" ELSE "done"]
       IN /\ store' = UpdateModified(store, c.kind, c.obj.pk, c.update_modified)
          /\ Step(p, c2)
    /\ UNCHANGED <<release, nextPk, cache, ncalls, envVars>>

\* lines 73-75: obj.modified = update_modified; cache.set(cache_key, obj, None)
CacheRefresh(p) ==
    /\ call[p].pc = "cache_refresh"
    /\ LET c == call[p]
           obj == [c.obj EXCEPT !.modified = c.update_modified]
           c2 == [c EXCEPT !.obj = obj, !.cacheSets = @ + 1, !.pc = "done"]
       IN /\ cache' = (c.cache_key :> [obj |-> obj, ver |-> c.ver]) @@ cache
          /\ Step(p, c2)
    /\ UNCHANGED <<release, store, nextPk, ncalls, envVars>>

StoreFault_swallowed(p, err) ==
    /\ call[p].pc \in {"get_or_create", "miss_get_or_create", "get", "update"}
    /\ Step(p, [call[p] EXCEPT !.pc = "done", !.obj = NoObj,
                               !.store_error = err])
    /\ UNCHANGED <<release, store, nextPk, cache, ncalls, envVars>>

\* lines 44, 55, 62, 71: the store operation raises err; no except clause of
\* get_file catches it (line 56 catches DoesNotExist only), so get_file ends
\* with it there
StoreFault(p, err) ==
    /\ call[p].pc \in {"get_or_create", "miss_get_or_create", "get", "update"}
    /\ Step(p, [call[p] EXCEPT !.pc = "raised", !.store_error = err,
                               !.raised = err])
    /\ UNCHANGED <<release, store, nextPk, cache, ncalls, envVars>>

\* ---------------------------------------------------------- environment
\* lines 30-32: _delete_cache_key(kwargs); deleting an absent key changes nothing
DeleteCacheKey(kind, kwargs) ==
    /\ settings.THUMBNAIL_CACHE
    /\ BetweenCalls \/ \E q \in Procs : InFlight(q)
    /\ get_cache_key(kind, VersionTag(release), kwargs) \in DOMAIN cache
    /\ cache' = [k \in DOMAIN cache
                    \ {get_cache_key(kind, VersionTag(release), kwargs)}
                 |-> cache[k]]
    /\ call' = DisturbAll
    /\ last' = NoProc
    /\ UNCHANGED <<release, store, nextPk, ncalls, envVars>>

\* the cache backend evicts an entry
Evict(k) ==
    /\ k \in DOMAIN cache
    /\ BetweenCalls \/ \E q \in Procs : InFlight(q)
    /\ cache' = [j \in DOMAIN cache \ {k} |-> cache[j]]
    /\ call' = DisturbAll
    /\ last' = NoProc
    /\ UNCHANGED <<release, store, nextPk, ncalls, envVars>>

\* a new release of the package is installed and the application restarted
\* (no call is running): get_version() changes
Upgrade ==
    /\ release < MaxRelease
    /\ BetweenCalls
    /\ \A q \in Procs : ~InFlight(q)
    /\ release' = release + 1
    /\ call' = call
    /\ last' = NoProc
    /\ UNCHANGED <<store, nextPk, cache, ncalls, envVars>>

\* a row's modified is written by other code than get_file, between calls
ExternalUpdate(row, t) ==
    /\ row \in store
    /\ t # row.modified
    /\ nexternal < MaxExternal
    /\ BetweenCalls
    /\ \A q \in Procs : ~InFlight(q)
    /\ store' = UpdateModified(store, row.kind, row.pk, t)
    /\ nexternal' = nexternal + 1
    /\ last' = NoProc
    /\ UNCHANGED <<release, dimensions, nextPk, cache, call, ncalls,
                   storageFiles, settings, probe>>

\* a row is created by other code than get_file, between calls, under the
\* table's unique_together and foreign key
ExternalCreate(kind, kwargs, t) ==
    /\ Filter(store, kind, kwargs) = {}
    /\ IF kind = "Thumbnail"
       THEN \E s \in store : s.kind = "Source" /\ s.pk = kwargs.source
       ELSE kwargs.source = NoPk
    /\ nexternal < MaxExternal
    /\ BetweenCalls
    /\ \A q \in Procs : ~InFlight(q)
    /\ store' = store \cup {Row(kind, nextPk[kind], kwargs, t)}
    /\ nextPk' = [nextPk EXCEPT ![kind] = @ + 1]
    /\ nexternal' = nexternal + 1
    /\ last' = NoProc
    /\ UNCHANGED <<release, dimensions, cache, call, ncalls, storageFiles,
                   settings, probe>>

\* a row is deleted by other code than get_file, between calls
\* (lines 115-116, 125-126: the thumbnails of a deleted source go with it,
\* and the dimensions of a deleted thumbnail)
ExternalDelete(row) ==
    /\ row \in store
    /\ nexternal < MaxExternal
    /\ BetweenCalls
    /\ \A q \in Procs : ~InFlight(q)
    /\ store' = DeleteCascade(store, row)
    /\ dimensions' = DeleteDimensions(dimensions, store, row)
    /\ nexternal' = nexternal + 1
    /\ last' = NoProc
    /\ UNCHANGED <<release, nextPk, cache, call, ncalls, storageFiles,
                   settings, probe>>

\* a row is deleted by other code while a get_file call is running
ConcurrentDelete(row) ==
    /\ row \in store
    /\ nexternal < MaxExternal
    /\ \E q \in Procs : InFlight(q)
    /\ store' = DeleteCascade(store, row)
    /\ dimensions' = DeleteDimensions(dimensions, store, row)
    /\ nexternal' = nexternal + 1
    /\ call' = DisturbAll
    /\ last' = NoProc
    /\ UNCHANGED <<release, nextPk, cache, ncalls, storageFiles, settings,
                   probe>>

AllKwargs ==
    [storage_hash : {get_storage_hash(s) : s \in Storages}, name : Names,
     source : {NoPk} \cup {r.pk : r \in store}]

\* ------------------------------------------------------- key derivation
NameChars == {"a", ":", "1"}

RECURSIVE StringsUpTo(_)
StringsUpTo(n) ==
    IF n = 0 THEN {<<>>}
    ELSE StringsUpTo(n - 1)
         \cup {Append(w, ch) : w \in StringsUpTo(n - 1), ch \in NameChars}

\* file names: non-empty, and free to hold the key's separator and digits
ProbeNames == StringsUpTo(MaxNameLen) \ {<<>>}
ProbeVersions == {VersionTag(r) : r \in 1..MaxRelease}
ProbeFileKwargs ==
    [storage_hash : {get_storage_hash(s) : s \in Storages}, name : ProbeNames,
     source : {NoPk}]
ProbeThumbnailKwargs ==
    [storage_hash : {get_storage_hash(s) : s \in Storages}, name : ProbeNames,
     source : 1..(MaxCalls + 1)]

\* lines 26-28 and 85-87 applied to a source lookup and a thumbnail lookup
KeyProbe(fver, fkwargs, tver, tkwargs) ==
    /\ probe = NoProbe
    /\ probe' = [fver |-> fver, fkwargs |-> fkwargs, tver |-> tver,
                 tkwargs |-> tkwargs,
                 file |-> FileManager_get_cache_key(fver, fkwargs),
                 thumb |-> ThumbnailManager_get_cache_key(tver, tkwargs)]
    /\ UNCHANGED <<release, store, dimensions, nextPk, cache, storageFiles,
                   settings, call, last, ncalls, nexternal>>

InitKey ==
    /\ Init
    /\ store = {}
    /\ storageFiles = {}
    /\ settings = [THUMBNAIL_CACHE |-> TRUE, THUMBNAIL_QUERYSET_CACHING |-> TRUE]

NextKey ==
    /\ probe = NoProbe
    /\ \E fver \in ProbeVersions, fkwargs \in ProbeFileKwargs,
          tver \in ProbeVersions, tkwargs \in ProbeThumbnailKwargs :
            KeyProbe(fver, fkwargs, tver, tkwargs)

SpecKey == InitKey /\ [][NextKey]_vars

\* the steps of process p's get_file call
GetFile(p) ==
    \/ \E kind \in Kinds, storage \in Storages, name \in Names,
          source \in {NoPk} \cup {r.pk : r \in store}, create \in BOOLEAN,
          um \in {NoTime} \cup Times, ccm \in BOOLEAN :
            Call(p, kind, storage, name, source, create, um, ccm)
    \/ GetOrCreate(p)
    \/ CacheGet(p)
    \/ StoreGet(p)
    \/ CacheSet(p)
    \/ Update(p)
    \/ CacheRefresh(p)

\* what happens to the cache and the release besides get_file
Environment ==
    \/ \E kind \in Kinds, kwargs \in AllKwargs : DeleteCacheKey(kind, kwargs)
    \/ \E k \in DOMAIN cache : Evict(k)
    \/ Upgrade

\* concurrent calls; the store is written by get_file only
Next ==
    \/ \E p \in Procs : GetFile(p)
    \/ Environment

Spec == Init /\ [][Next]_vars

\* one call after the other, and other code writing the store in between
NextExt ==
    \/ GetFile(1)
    \/ Environment
    \/ \E row \in store, t \in Times : ExternalUpdate(row, t)
    \/ \E kind \in Kinds, kwargs \in AllKwargs, t \in Times :
          ExternalCreate(kind, kwargs, t)
    \/ \E row \in store : ExternalDelete(row)

SpecExt == Init /\ [][NextExt]_vars

\* one call after the other, store operations that fail, and other code
\* deleting rows while a call runs
NextFault ==
    \/ GetFile(1)
    \/ \E err \in StoreErrors : StoreFault(1, err)
    \/ \E row \in store : ConcurrentDelete(row)

SpecFault == Init /\ [][NextFault]_vars

\* ------------------------------------------------------------ properties
Done(p) == call[p].pc = "done"
ReadPath(c) == c.kind # "None" /\ ~c.create
Quiescent == \A q \in Procs : ~InFlight(q)

\* p's call has just returned: it ran with no other call beside it and
\* nothing has happened since
Returned(p) == last = p /\ Done(p)

\* the arguments of call c are those of the call pv made just before it
SameLookup(pv, c) ==
    /\ pv.kind = c.kind
    /\ pv.storage = c.storage
    /\ pv.name = c.name
    /\ pv.source = c.source

SameArgs(pv, c) ==
    /\ SameLookup(pv, c)
    /\ pv.create = c.create
    /\ pv.update_modified = c.update_modified
    /\ pv.check_cache_miss = c.check_cache_miss

\* C1: a call answered by the cache returns what the store holds for its
\* criteria at that moment (the same record with the same modified, as a call
\* with caching disabled would read), also after other code wrote the store.
C1_CacheTransparent == \A p \in Procs : ~call[p].stale

\* C2: the store never holds two records for one (storage_hash, name)
\* (with source, for thumbnails), and every call with create=true that has
\* returned returned the stored record for its criteria, so that concurrent
\* callers with identical criteria return the same record.
C2_OneRecord ==
    /\ \A r1 \in store, r2 \in store :
         (/\ r1.kind = r2.kind
          /\ r1.storage_hash = r2.storage_hash
          /\ r1.name = r2.name
          /\ r1.source = r2.source) => r1 = r2
    /\ \A p \in Procs :
         (Done(p) /\ call[p].create) =>
            /\ call[p].obj # NoObj
            /\ \E r \in Filter(store, call[p].kind, Kwargs(call[p])) :
                 r.pk = call[p].obj.pk
    /\ \A p \in Procs, q \in Procs :
         (/\ Done(p) /\ call[p].create
          /\ Done(q) /\ call[q].create
          /\ SameLookup(call[p], call[q])) => call[p].obj.pk = call[q].obj.pk

\* two overlapping create=true calls for one thumbnail have returned; the
\* second one created the record and the first one fetched it
C2_Witness ==
    /\ Done(1) /\ Done(2)
    /\ call[1].create /\ call[2].create
    /\ ~call[1].solo /\ ~call[2].solo
    /\ call[1].kind = "Thumbnail"
    /\ SameLookup(call[1], call[2])
    /\ call[2].created /\ ~call[1].created

\* C3: with caching enabled, the call that follows a read-path call which
\* returned a record, with the same arguments and nothing in between, is
\* answered by the cache, returns that record and queries the store not once.
C3_SecondReadFromCache ==
    \A p \in Procs :
        (/\ Done(p)
         /\ Caching
         /\ call[p].prev.kind # "None"
         /\ ~call[p].prev.create
         /\ call[p].prev.obj # NoObj
         /\ SameArgs(call[p].prev, call[p]))
        => /\ call[p].hit
           /\ call[p].queries = 0
           /\ call[p].obj.pk = call[p].prev.obj.pk

C3_Witness ==
    \E p \in Procs :
        /\ Done(p)
        /\ Caching
        /\ call[p].prev.kind # "None"
        /\ ~call[p].prev.create
        /\ call[p].prev.obj # NoObj
        /\ ~call[p].prev.hit
        /\ SameArgs(call[p].prev, call[p])
        /\ call[p].hit
        /\ call[p].queries = 0

\* C4: a call given update_modified, for a record that exists when the call
\* is made and whose stored modified differs from update_modified, issues
\* exactly one store update, leaves the stored modified equal to
\* update_modified, and the cached copy under its key, if present, too.
C4_OneUpdate ==
    \A p \in Procs :
        (/\ Returned(p)
         /\ call[p].update_modified # NoTime
         /\ call[p].found0 # NoObj
         /\ call[p].found0.modified # call[p].update_modified)
        => /\ call[p].updates = 1
           /\ Get(store, call[p].kind, Kwargs(call[p])).modified
                = call[p].update_modified
           /\ call[p].cache_key \in DOMAIN cache
                => cache[call[p].cache_key].obj.modified
                     = call[p].update_modified

\* C5: after a create=true call created a record, the next call, with
\* create=false and an update_modified other than the record's modified,
\* returns the same record with modified equal to update_modified, whether
\* caching is enabled or not.
C5_ReturnedModified ==
    \A p \in Procs :
        (/\ Done(p)
         /\ call[p].prev.kind # "None"
         /\ call[p].prev.create
         /\ call[p].prev.created
         /\ ~call[p].create
         /\ SameLookup(call[p].prev, call[p])
         /\ call[p].update_modified # NoTime
         /\ call[p].update_modified # call[p].prev.obj.modified)
        => /\ call[p].obj.pk = call[p].prev.obj.pk
           /\ call[p].obj.modified = call[p].update_modified

\* C6: with caching enabled, once every call has returned, the cache entry
\* under a returned call's key, if present, has the modified of the stored
\* record.
C6_CacheMatchesStore ==
    (Quiescent /\ Caching) =>
        \A p \in Procs :
            (/\ Done(p)
             /\ call[p].ver = VersionTag(release)
             /\ call[p].cache_key \in DOMAIN cache)
            => cache[call[p].cache_key].obj.modified
                 = Get(store, call[p].kind, Kwargs(call[p])).modified

\* C7: a call with create=false and check_cache_miss=false made on an empty
\* store returns no record and writes nothing to the store, whatever the
\* cache holds.
C7_AbsentOnEmptyStore ==
    \A p \in Procs :
        (/\ Returned(p)
         /\ ~call[p].create
         /\ ~call[p].check_cache_miss
         /\ call[p].empty0)
        => /\ call[p].obj = NoObj
           /\ call[p].creates = 0
           /\ call[p].updates = 0

\* C8: a call with create=false and check_cache_miss=true, for a file that
\* exists in storage, made on an empty store, creates exactly one record with
\* that storage_hash and name and returns it.
C8_CreatedOnEmptyStore ==
    \A p \in Procs :
        (/\ Returned(p)
         /\ ~call[p].create
         /\ call[p].check_cache_miss
         /\ call[p].empty0
         /\ <<call[p].storage, call[p].name>> \in storageFiles)
        => /\ call[p].creates = 1
           /\ Cardinality(Filter(store, call[p].kind, Kwargs(call[p]))) = 1
           /\ call[p].obj \in Filter(store, call[p].kind, Kwargs(call[p]))

\* C9: the cache key of a thumbnail lookup is never the cache key of a source
\* lookup, whatever the versions, storage hashes, names and source id, the
\* same (storage_hash, name) in both included.
C9_KeysDiffer == probe # NoProbe => probe.file # probe.thumb

\* both lookups have the version, storage hash and name in common, and the
\* name holds the key's separator
C9_Witness ==
    /\ probe # NoProbe
    /\ probe.fver = probe.tver
    /\ probe.fkwargs.storage_hash = probe.tkwargs.storage_hash
    /\ probe.fkwargs.name = probe.tkwargs.name
    /\ probe.fkwargs.name = <<"a", ":">>

\* C10: a read-path call is answered by the cache only from an entry written
\* under the version the call runs under, and a read-path call that the cache
\* did not answer has queried the store when it returns.
C10_OldVersionIgnored ==
    \A p \in Procs :
        /\ (ReadPath(call[p]) /\ call[p].hit) => call[p].hitVer = call[p].ver
        /\ (ReadPath(call[p]) /\ Done(p) /\ ~call[p].hit /\ Caching)
             => call[p].queries >= 1

\* after an upgrade a thumbnail lookup has missed the cache and fetched the
\* record from the store, while the entry of the previous version is cached
C10_Witness ==
    \E p \in Procs :
        /\ Done(p)
        /\ ReadPath(call[p])
        /\ call[p].kind = "Thumbnail"
        /\ call[p].ver = VersionTag(2)
        /\ get_cache_key(call[p].kind, VersionTag(1), Kwargs(call[p]))
             \in DOMAIN cache
        /\ ~call[p].hit
        /\ call[p].queries = 1
        /\ call[p].obj # NoObj

\* C11: every thumbnail references an existing source and every dimensions
\* row an existing thumbnail, in the initial state and after every step; and
\* a step that deletes a source leaves no thumbnail that referenced it and no
\* dimensions row that was attached to one of those thumbnails.
RefIntegrity ==
    /\ \A t \in store :
         t.kind = "Thumbnail"
            => \E s \in store : s.kind = "Source" /\ s.pk = t.source
    /\ \A d \in dimensions :
         \E t \in store : t.kind = "Thumbnail" /\ t.pk = d.thumbnail

C11_Cascade ==
    /\ RefIntegrity
    /\ [][/\ RefIntegrity'
          /\ \A s \in store :
               (/\ s.kind = "Source"
                /\ \A r \in store' : ~(r.kind = "Source" /\ r.pk = s.pk))
               => /\ \A t \in store' :
                       ~(t.kind = "Thumbnail" /\ t.source = s.pk)
                  /\ \A t \in store, d \in dimensions' :
                       ~(/\ t.kind = "Thumbnail" /\ t.source = s.pk
                         /\ d.thumbnail = t.pk)]_vars

\* the source that had a thumbnail with dimensions was deleted, and the
\* thumbnail and its dimensions with it (the one call made created nothing)
C11_Witness ==
    /\ nexternal = 1
    /\ ncalls = 1
    /\ call[1].creates = 0
    /\ nextPk["Source"] = 2
    /\ nextPk["Thumbnail"] = 2
    /\ store = {}
    /\ dimensions = {}

\* C12: a call whose store operation (get_or_create, get or update) failed
\* with an error other than DoesNotExist has ended with that error; the step
\* in which the operation failed wrote neither the store nor the cache, and
\* the call takes no step after it (no retry, no further write).
C12_ErrorPropagates ==
    [][\A p \in Procs :
         call'[p].store_error # NoError
         => /\ call'[p].pc = "raised"
            /\ call'[p].raised = call'[p].store_error
            /\ call[p].store_error = NoError
                 => /\ store' = store
                    /\ cache' = cache
                    /\ call'[p].creates = call[p].creates
                    /\ call'[p].updates = call[p].updates
                    /\ call'[p].cacheSets = call[p].cacheSets
            /\ call[p].store_error # NoError => call'[p] = call[p]]_vars

\* the update of line 71 failed, after the record was read and cached
C12_Witness ==
    \E p \in Procs :
        /\ call[p].pc = "raised"
        /\ call[p].raised = "OperationalError"
        /\ call[p].store_error = "OperationalError"
        /\ call[p].queries = 1
        /\ call[p].cacheSets = 1
        /\ call[p].updates = 0
        /\ NeedsUpdate(call[p])

\* C13 as stated: a call with create=true neither reads nor writes the cache.
C13_CreateNeverTouchesCache ==
    \A p \in Procs :
        call[p].create
        => /\ call[p].pc \notin {"cache_get", "cache_set", "cache_refresh"}
           /\ ~call[p].hit
           /\ call[p].cacheSets = 0

\* C13, amended: a call with create=true never reads the cache and never
\* writes it for the record it got or created (lines 66-67 are not on its
\* path); its only cache write is the one of lines 73-75, made with caching
\* enabled right after its store update of an existing record whose modified
\* differed from update_modified.
C13_CreateWritesCacheOnUpdateOnly ==
    \A p \in Procs :
        call[p].create
        => /\ call[p].pc \notin {"cache_get", "cache_set"}
           /\ ~call[p].hit
           /\ call[p].cacheSets <= call[p].updates
           /\ call[p].pc = "cache_refresh" => call[p].updates = 1
           /\ (call[p].cacheSets > 0 \/ call[p].pc = "cache_refresh")
                => /\ Caching
                   /\ ~call[p].created
                   /\ call[p].update_modified # NoTime

\* a create=true call found the record with another modified, updated it and
\* wrote it to the cache, which held no entry for the key before
C13_Witness ==
    \E p \in Procs :
        /\ Returned(p)
        /\ call[p].create
        /\ call[p].prev.kind = "None"
        /\ ncalls = 1
        /\ call[p].updates = 1
        /\ call[p].cacheSets = 1
        /\ call[p].cache_key \in DOMAIN cache
        /\ cache[call[p].cache_key].obj.modified = call[p].update_modified

\* a read-path call that missed the store (and the cache, when caching is
\* enabled), found the file in storage and ran the get_or_create of line 62
LazyCreate(c) == ReadPath(c) /\ c.check_cache_miss /\ c.queries = 2

\* C14 as stated: such a call returns the record of get_or_create and
\* leaves the cache as it was.
C14_LazyCreateNotCached ==
    \A p \in Procs :
        (Done(p) /\ LazyCreate(call[p]))
        => /\ call[p].obj # NoObj
           /\ call[p].cacheSets = 0

\* C14, amended: such a call returns the record of get_or_create, which is
\* the stored record for its criteria; with caching enabled it has written
\* that record to the cache under its key (lines 66-67), with caching
\* disabled it has not written the cache.
C14_LazyCreateCached ==
    \A p \in Procs :
        (Done(p) /\ LazyCreate(call[p]))
        => /\ call[p].obj # NoObj
           /\ call[p].obj.pk = Get(store, call[p].kind, Kwargs(call[p])).pk
           /\ Caching => call[p].cacheSets >= 1
           /\ ~Caching => call[p].cacheSets = 0
           /\ (Returned(p) /\ Caching)
                => /\ call[p].cache_key \in DOMAIN cache
                   /\ cache[call[p].cache_key].obj = call[p].obj

\* with caching enabled the call created the record and cached it
C14_Witness ==
    \E p \in Procs :
        /\ Returned(p)
        /\ LazyCreate(call[p])
        /\ Caching
        /\ ~call[p].hit
        /\ call[p].created
        /\ call[p].cacheSets = 1
        /\ cache[call[p].cache_key].obj = call[p].obj

\* C15: a call that has returned no record has not written the cache, and no
\* cache entry holds "no record"; so the read-path call that follows a call
\* which returned no record for the same criteria, made after the record was
\* created by other code, returns that record.
C15_MissNotCached ==
    /\ \A p \in Procs :
         (Done(p) /\ call[p].obj = NoObj) => call[p].cacheSets = 0
    /\ \A k \in DOMAIN cache : cache[k].obj # NoObj
    /\ \A p \in Procs :
         (/\ Returned(p)
          /\ ReadPath(call[p])
          /\ call[p].absent0
          /\ call[p].found0 # NoObj)
         => call[p].obj.pk = call[p].found0.pk

\* with caching enabled a thumbnail lookup returned no record, the thumbnail
\* was created, and the next lookup read it from the store
C15_Witness ==
    \E p \in Procs :
        /\ Returned(p)
        /\ Caching
        /\ ReadPath(call[p])
        /\ call[p].kind = "Thumbnail"
        /\ call[p].absent0
        /\ call[p].found0 # NoObj
        /\ ~call[p].hit
        /\ call[p].updates = 0
        /\ call[p].obj = call[p].found0

\* C16: when a call with create=true and update_modified=T returns, the
\* stored record for its criteria has modified T; if the call created the
\* record, it is the returned record, returned with modified T, and the call
\* issued no store update.
C16_CreatedWithModified ==
    \A p \in Procs :
        (/\ Returned(p)
         /\ call[p].create
         /\ call[p].update_modified # NoTime)
        => /\ Get(store, call[p].kind, Kwargs(call[p])).pk = call[p].obj.pk
           /\ Get(store, call[p].kind, Kwargs(call[p])).modified
                = call[p].update_modified
           /\ call[p].created
                => /\ call[p].obj.modified = call[p].update_modified
                   /\ call[p].updates = 0
                   /\ call[p].creates = 1

\* a create=true call created the record with modified 1, and the next one,
\* given 2, found it and updated it
C16_Witness ==
    \E p \in Procs :
        /\ Returned(p)
        /\ call[p].create
        /\ call[p].update_modified = 2
        /\ ~call[p].created
        /\ call[p].updates = 1
        /\ call[p].prev.kind # "None"
        /\ SameLookup(call[p].prev, call[p])
        /\ call[p].prev.create
        /\ call[p].prev.created
        /\ call[p].prev.update_modified = 1
        /\ call[p].prev.obj.modified = 1

\* C17: whenever a call with create=false and check_cache_miss=true, for a
\* file that exists in storage, has returned, however it interleaved with the
\* other calls, the store holds exactly one record for its criteria and the
\* call returned that record; so concurrent callers return the same one.
C17_LazyCreateOneRecord ==
    \A p \in Procs :
        (/\ Done(p)
         /\ ReadPath(call[p])
         /\ call[p].check_cache_miss
         /\ <<call[p].storage, call[p].name>> \in storageFiles)
        => /\ Cardinality(Filter(store, call[p].kind, Kwargs(call[p]))) = 1
           /\ call[p].obj.pk = Get(store, call[p].kind, Kwargs(call[p])).pk

\* two overlapping lookups of one thumbnail both missed the store; the second
\* created the record between the first one's miss and its get_or_create,
\* which fetched it
C17_Witness ==
    /\ Done(1) /\ Done(2)
    /\ ReadPath(call[1]) /\ ReadPath(call[2])
    /\ call[1].check_cache_miss /\ call[2].check_cache_miss
    /\ call[1].kind = "Thumbnail"
    /\ SameLookup(call[1], call[2])
    /\ <<call[1].storage, call[1].name>> \in storageFiles
    /\ call[1].queries = 2 /\ call[2].queries = 2
    /\ call[2].created /\ ~call[1].created
    /\ call[1].obj.pk = call[2].obj.pk

\* C18: every step of a get_file call keeps every record of the store, with
\* its kind, pk, storage_hash, name and source; it may change the record's
\* modified, and add records.
C18_OnlyModifiedChanges ==
    [][\A r \in store :
         \E r2 \in store' : r2 = [r EXCEPT !.modified = r2.modified]]_vars

\* a call has added a record to a store that held one, and the next call has
\* set that record's modified
C18_Witness ==
    \E p \in Procs :
        /\ Done(p)
        /\ call[p].updates = 1
        /\ call[p].prev.kind # "None"
        /\ call[p].prev.created
        /\ call[p].prev.kind = "Thumbnail"
        /\ SameLookup(call[p].prev, call[p])
        /\ Cardinality(store) = 2
        /\ Get(store, call[p].kind, Kwargs(call[p])).modified
             = call[p].update_modified
        /\ call[p].update_modified # call[p].prev.obj.modified

\* C19: with THUMBNAIL_CACHE or THUMBNAIL_QUERYSET_CACHING off, no call is
\* ever at a cache read or a cache write, no call was answered by the cache
\* or has written it, the cache holds what it held at the start, and every
\* read-path call that has returned has queried the store.
C19_NoCacheWhenDisabled ==
    ~(settings.THUMBNAIL_CACHE /\ settings.THUMBNAIL_QUERYSET_CACHING)
    => /\ DOMAIN cache = {}
       /\ \A p \in Procs :
            /\ call[p].pc \notin {"cache_get", "cache_set", "cache_refresh"}
            /\ ~call[p].hit
            /\ call[p].cacheSets = 0
            /\ (Done(p) /\ ReadPath(call[p])) => call[p].queries >= 1

\* with THUMBNAIL_CACHE on and THUMBNAIL_QUERYSET_CACHING off: a create=true
\* call created the record, and the lookup that followed read it from the
\* store and updated its modified
C19_Witness ==
    \E p \in Procs :
        /\ settings.THUMBNAIL_CACHE
        /\ ~settings.THUMBNAIL_QUERYSET_CACHING
        /\ Returned(p)
        /\ ReadPath(call[p])
        /\ call[p].queries = 1
        /\ call[p].updates = 1
        /\ call[p].prev.kind # "None"
        /\ call[p].prev.create
        /\ call[p].prev.created
        /\ SameLookup(call[p].prev, call[p])
        /\ DOMAIN cache = {}

\* C20: the call that follows a call with the same arguments, with nothing
\* in between, returns what that call returned (the same record, or none)
\* and writes nothing to the store: no create and no update.
C20_Idempotent ==
    \A p \in Procs :
        (/\ Done(p)
         /\ call[p].prev.kind # "None"
         /\ SameArgs(call[p].prev, call[p]))
        => /\ call[p].obj.pk = call[p].prev.obj.pk
           /\ call[p].creates = 0
           /\ call[p].updates = 0

====
